---- MODULE Spec2Model ----
(***************************************************************************)
(* Row-level-security model of the student admission inquiry platform.     *)
(*                                                                         *)
(* The record store holds three tables (profiles, inquiries, follow_ups)   *)
(* created by supabase/migrations/20260105054332_create_base_schema.sql.   *)
(* Every table has row level security enabled; each CREATE POLICY of the   *)
(* migration is one operator below, named after the policy.  A request is  *)
(* one statement issued by a caller (auth.uid()); the policies of the      *)
(* statement's command are combined the way permissive policies are: the   *)
(* USING clauses are OR-ed and decide which existing rows the statement    *)
(* touches, the WITH CHECK clauses are OR-ed and decide whether the new    *)
(* row is accepted.  A row removed by USING is skipped silently; a new row *)
(* failing WITH CHECK or a constraint raises an error and the statement    *)
(* changes nothing.                                                        *)
(*                                                                         *)
(* The sub-selects inside the policies are evaluated against the stored    *)
(* tables.  What the engine adds outside the text of the migration (how a  *)
(* policy's own sub-select is itself filtered, which other commands'       *)
(* policies are joined to a statement that reads columns) is not part of   *)
(* this model.                                                             *)
(*                                                                         *)
(* The client is modelled where it decides something on its own: the       *)
(* gates that show or hide a control, and the handlers of the Add User     *)
(* modal and of the inquiry details modal, which run in stretches between  *)
(* their awaits and keep their own state (ui).  auth_users is the identity *)
(* provider's table of accounts, which profiles.id refers to.              *)
(*                                                                         *)
(* Specifications:                                                         *)
(*   Spec             any caller sends any statement to the seeded store   *)
(*   ScenarioSpec     the end-to-end run from provisioning to conversion   *)
(*   FollowUpSpec     Spec's requests on a store that holds a follow-up    *)
(*   DecisionSpec     one gated request on every store the gates can see   *)
(*   DetailsSpec      update and delete from the inquiry details modal     *)
(*   ProvisionSpec    AddUserModal.handleSubmit and account removal        *)
(*   FollowUpFormSpec InquiryDetailsModal.handleAddFollowUp                *)
(***************************************************************************)
EXTENDS Integers, FiniteSets, Sequences, TLC

\* Bounds of the model.
MaxInquiries == 2
MaxFollowUps == 1
MaxOps == 2

\* SQL NULL, and the absent caller identity.
NULL == "null"

\* Identity-provider accounts (auth.users.id values).
Users == {"u1", "u2", "u3"}
\* auth.uid() of a request: an account, or NULL when unauthenticated.
Callers == Users \cup {NULL}

Roles == {"admin", "co_leader", "employee"}
Statuses == {"pending", "converted", "dropped"}
Notes == {"n1", "n2"}

\* Values outside the CHECK lists, as a statement may carry them.
InvalidRole == "manager"
InvalidStatus == "archived"
\* The column is left out of an INSERT: its DEFAULT is stored.
DEFAULT == "default"

InquiryIds == 1..MaxInquiries
FollowUpIds == 1..MaxFollowUps

VARIABLES
    profiles,    \* profiles table: id -> row
    inquiries,   \* inquiries table: id -> row
    follow_ups,  \* follow_ups table: id -> row
    auth_users,  \* auth.users of the identity provider: the ids of the accounts
    ui,          \* state of the form a user has open, and of its handler
    last,        \* the last request and the store's answer to it
    nops         \* number of requests issued so far

vars == <<profiles, inquiries, follow_ups, auth_users, ui, last, nops>>

----------------------------------------------------------------------------
\* Row shapes (the columns the policies, constraints and properties read).  A
\* specification carries the columns its properties are about: InquiryRow is the
\* inquiry of the policies and constraints, InquiryRecord the same inquiry with
\* its free text and its modification time.

ProfileRow(id, role, active) == [id |-> id, role |-> role, is_active |-> active]

InquiryRow(id, status, assigned, creator) ==
    [id |-> id, status |-> status, assigned_to |-> assigned, created_by |-> creator]

InquiryRecord(id, status, assigned, creator, more, updated) ==
    [id |-> id, status |-> status, assigned_to |-> assigned, created_by |-> creator,
     more_input |-> more, updated_at |-> updated]

FollowUpRow(id, inquiry, notes, creator) ==
    [id |-> id, inquiry_id |-> inquiry, notes |-> notes, created_by |-> creator]

\* SQL equality: NULL = x is never true.
SqlEq(a, b) == a # NULL /\ b # NULL /\ a = b

\* TO authenticated: the policies apply to an authenticated caller only.
Authenticated(uid) == uid # NULL

\* Mutant: the role is the one the caller had when the store was set up (a
\* role carried by the session instead of read from profiles).
CallerHasRole_Mutant(uid, rs) ==
    uid \in Users /\ (IF uid = "u1" THEN "admin"
                      ELSE IF uid = "u2" THEN "co_leader" ELSE "employee") \in rs

\* EXISTS (SELECT 1 FROM profiles p WHERE p.id = auth.uid() AND p.role IN rs)
CallerHasRole(uid, rs) ==
    \E p \in DOMAIN profiles : SqlEq(profiles[p].id, uid) /\ profiles[p].role \in rs

\* The caller's stored role, NULL when the caller has no profile row.
StoredRole(uid) == IF uid \in DOMAIN profiles THEN profiles[uid].role ELSE NULL

----------------------------------------------------------------------------
\* Profiles table policies.

AdminsCanViewAllProfiles(uid, row) == CallerHasRole(uid, {"admin"})

CoLeadersCanViewAllProfiles(uid, row) == CallerHasRole(uid, {"co_leader"})


\* Mutant: a caller also sees the profiles of its own role.
EmployeesCanViewOwnProfile_Mutant(uid, row) ==
    SqlEq(row.id, uid) \/ CallerHasRole(uid, {row.role})

EmployeesCanViewOwnProfile(uid, row) == SqlEq(row.id, uid)

\* Mutant: co-leaders may insert profiles too.
OnlyAdminsCanInsertProfiles_Mutant(uid, row) ==
    CallerHasRole(uid, {"admin", "co_leader"})

OnlyAdminsCanInsertProfiles(uid, row) == CallerHasRole(uid, {"admin"})


OnlyAdminsCanUpdateProfilesUsing(uid, row) == CallerHasRole(uid, {"admin"})

OnlyAdminsCanUpdateProfilesCheck(uid, row) == CallerHasRole(uid, {"admin"})

\* Mutant: co-leaders may delete profiles too.
OnlyAdminsCanDeleteProfiles_Mutant(uid, row) == CallerHasRole(uid, {"admin", "co_leader"})

OnlyAdminsCanDeleteProfiles(uid, row) == CallerHasRole(uid, {"admin"})

\* Inquiries table policies.

\* Mutant: the policy names the admin role only.
AdminsAndCoLeadersCanViewAllInquiries_AdminOnly(uid, row) ==
    CallerHasRole(uid, {"admin"})

AdminsAndCoLeadersCanViewAllInquiries(uid, row) ==
    CallerHasRole(uid, {"admin", "co_leader"})


\* Mutant: an unassigned inquiry is shown to every caller.
EmployeesCanViewAssignedInquiries_Mutant(uid, row) ==
    row.assigned_to = NULL \/ SqlEq(row.assigned_to, uid)

\* Mutant: a deactivated employee no longer sees the inquiries assigned to it.
EmployeesCanViewAssignedInquiries_ActiveOnly(uid, row) ==
    /\ SqlEq(row.assigned_to, uid)
    /\ \E p \in DOMAIN profiles : p = uid /\ profiles[p].is_active

EmployeesCanViewAssignedInquiries(uid, row) == SqlEq(row.assigned_to, uid)

\* Mutant: a caller may also create an inquiry assigned to itself.
AdminsAndCoLeadersCanCreateInquiries_Mutant(uid, row) ==
    CallerHasRole(uid, {"admin", "co_leader"}) \/ SqlEq(row.assigned_to, uid)

AdminsAndCoLeadersCanCreateInquiries(uid, row) ==
    CallerHasRole(uid, {"admin", "co_leader"})

AdminsAndCoLeadersCanUpdateAllInquiriesUsing(uid, row) ==
    CallerHasRole(uid, {"admin", "co_leader"})

\* Mutant: the WITH CHECK of the policy names admins only.
AdminsAndCoLeadersCanUpdateAllInquiriesCheck_AdminOnly(uid, row) ==
    CallerHasRole(uid, {"admin"})

AdminsAndCoLeadersCanUpdateAllInquiriesCheck(uid, row) ==
    CallerHasRole(uid, {"admin", "co_leader"})


\* Mutant: an unassigned inquiry may be updated by any caller.
EmployeesCanUpdateAssignedInquiriesUsing_Unassigned(uid, row) ==
    row.assigned_to = NULL \/ SqlEq(row.assigned_to, uid)

\* Mutant: the policy is written with USING (true).
EmployeesCanUpdateAssignedInquiriesUsing_Mutant(uid, row) == TRUE

EmployeesCanUpdateAssignedInquiriesUsing(uid, row) == SqlEq(row.assigned_to, uid)


\* Mutant: the policy is written with WITH CHECK (true).
EmployeesCanUpdateAssignedInquiriesCheck_Mutant(uid, row) == TRUE

EmployeesCanUpdateAssignedInquiriesCheck(uid, row) == SqlEq(row.assigned_to, uid)


\* Mutant: co-leaders may delete inquiries too.
OnlyAdminsCanDeleteInquiries_Mutant(uid, row) == CallerHasRole(uid, {"admin", "co_leader"})

OnlyAdminsCanDeleteInquiries(uid, row) == CallerHasRole(uid, {"admin"})

\* Follow-ups table policies (inquiries.id and follow_ups.inquiry_id are NOT NULL).

\* EXISTS (SELECT 1 FROM inquiries i INNER JOIN profiles p ON p.id = auth.uid()
\*         WHERE i.id = follow_ups.inquiry_id
\*           AND (p.role IN ('admin','co_leader') OR i.assigned_to = auth.uid()))

\* Mutant: a caller also sees the follow-ups it created.
UsersCanViewFollowUpsForAccessibleInquiries_Mutant(uid, row) ==
    \/ SqlEq(row.created_by, uid)
    \/ \E i \in DOMAIN inquiries : \E p \in DOMAIN profiles :
           /\ SqlEq(profiles[p].id, uid)
           /\ inquiries[i].id = row.inquiry_id
           /\ \/ profiles[p].role \in {"admin", "co_leader"}
              \/ SqlEq(inquiries[i].assigned_to, uid)

UsersCanViewFollowUpsForAccessibleInquiries(uid, row) ==
    \E i \in DOMAIN inquiries : \E p \in DOMAIN profiles :
        /\ SqlEq(profiles[p].id, uid)
        /\ inquiries[i].id = row.inquiry_id
        /\ \/ profiles[p].role \in {"admin", "co_leader"}
           \/ SqlEq(inquiries[i].assigned_to, uid)


\* Mutant: the insert policy looks at the caller's profile only, not at the
\* inquiry's assignment.
UsersCanCreateFollowUpsForAccessibleInquiries_Mutant(uid, row) ==
    \E i \in DOMAIN inquiries : \E p \in DOMAIN profiles :
        /\ SqlEq(profiles[p].id, uid)
        /\ inquiries[i].id = row.inquiry_id

UsersCanCreateFollowUpsForAccessibleInquiries(uid, row) ==
    \E i \in DOMAIN inquiries : \E p \in DOMAIN profiles :
        /\ SqlEq(profiles[p].id, uid)
        /\ inquiries[i].id = row.inquiry_id
        /\ \/ profiles[p].role \in {"admin", "co_leader"}
           \/ SqlEq(inquiries[i].assigned_to, uid)


\* Mutant: admins may update every follow-up.
UsersCanUpdateOwnFollowUpsUsing_Mutant(uid, row) ==
    SqlEq(row.created_by, uid) \/ CallerHasRole(uid, {"admin"})

UsersCanUpdateOwnFollowUpsUsing(uid, row) == SqlEq(row.created_by, uid)

UsersCanUpdateOwnFollowUpsCheck(uid, row) == SqlEq(row.created_by, uid)

----------------------------------------------------------------------------
\* Per table and command: the permissive policies OR-ed, for an
\* authenticated caller.  A command with no policy admits no row.

ProfilesSelectUsing(uid, row) ==
    /\ Authenticated(uid)
    /\ \/ AdminsCanViewAllProfiles(uid, row)
       \/ CoLeadersCanViewAllProfiles(uid, row)
       \/ EmployeesCanViewOwnProfile(uid, row)

ProfilesInsertCheck(uid, row) ==
    Authenticated(uid) /\ OnlyAdminsCanInsertProfiles(uid, row)

ProfilesUpdateUsing(uid, row) ==
    Authenticated(uid) /\ OnlyAdminsCanUpdateProfilesUsing(uid, row)

ProfilesUpdateCheck(uid, row) ==
    Authenticated(uid) /\ OnlyAdminsCanUpdateProfilesCheck(uid, row)

ProfilesDeleteUsing(uid, row) ==
    Authenticated(uid) /\ OnlyAdminsCanDeleteProfiles(uid, row)

\* Mutant: a further SELECT policy, for unauthenticated callers, USING (true).
InquiriesSelectUsing_Mutant(uid, row) ==
    \/ ~Authenticated(uid)
    \/ /\ Authenticated(uid)
       /\ \/ AdminsAndCoLeadersCanViewAllInquiries(uid, row)
          \/ EmployeesCanViewAssignedInquiries(uid, row)

InquiriesSelectUsing(uid, row) ==
    /\ Authenticated(uid)
    /\ \/ AdminsAndCoLeadersCanViewAllInquiries(uid, row)
       \/ EmployeesCanViewAssignedInquiries(uid, row)

InquiriesInsertCheck(uid, row) ==
    Authenticated(uid) /\ AdminsAndCoLeadersCanCreateInquiries(uid, row)

InquiriesUpdateUsing(uid, row) ==
    /\ Authenticated(uid)
    /\ \/ AdminsAndCoLeadersCanUpdateAllInquiriesUsing(uid, row)
       \/ EmployeesCanUpdateAssignedInquiriesUsing(uid, row)

InquiriesUpdateCheck(uid, row) ==
    /\ Authenticated(uid)
    /\ \/ AdminsAndCoLeadersCanUpdateAllInquiriesCheck(uid, row)
       \/ EmployeesCanUpdateAssignedInquiriesCheck(uid, row)

InquiriesDeleteUsing(uid, row) ==
    Authenticated(uid) /\ OnlyAdminsCanDeleteInquiries(uid, row)

FollowUpsSelectUsing(uid, row) ==
    Authenticated(uid) /\ UsersCanViewFollowUpsForAccessibleInquiries(uid, row)

FollowUpsInsertCheck(uid, row) ==
    Authenticated(uid) /\ UsersCanCreateFollowUpsForAccessibleInquiries(uid, row)

FollowUpsUpdateUsing(uid, row) ==
    Authenticated(uid) /\ UsersCanUpdateOwnFollowUpsUsing(uid, row)

FollowUpsUpdateCheck(uid, row) ==
    Authenticated(uid) /\ UsersCanUpdateOwnFollowUpsCheck(uid, row)

\* follow_ups has row level security enabled and no DELETE policy.

\* Mutant: a DELETE policy for the creator of a follow-up.
FollowUpsDeleteUsing_Mutant(uid, row) == Authenticated(uid) /\ SqlEq(row.created_by, uid)

FollowUpsDeleteUsing(uid, row) == FALSE

----------------------------------------------------------------------------
\* Constraints of the schema (CHECK, PRIMARY KEY, FOREIGN KEY).

\* A reference column holds NULL or the id of an existing profile.
ProfileRef(v) == v = NULL \/ v \in DOMAIN profiles

\* role CHECK (role IN (...)); id REFERENCES auth.users(id)
ProfileConstraints(row) == row.role \in Roles /\ row.id \in auth_users


\* Mutant: inquiries.status declared without its CHECK list.
InquiryConstraints_Mutant(row) ==
    /\ ProfileRef(row.assigned_to)
    /\ ProfileRef(row.created_by)

InquiryConstraints(row) ==
    /\ row.status \in Statuses
    /\ ProfileRef(row.assigned_to)
    /\ ProfileRef(row.created_by)

FollowUpConstraints(row) ==
    /\ row.inquiry_id \in DOMAIN inquiries
    /\ ProfileRef(row.created_by)

\* UPDATE ... SET: the row with the columns named in set replaced.
ApplySet(row, set) ==
    [c \in DOMAIN row |-> IF c \in DOMAIN set THEN set[c] ELSE row[c]]

\* now(): statements are issued one at a time, and the time of a statement is
\* its number in the run.
now == nops + 1

\* BEFORE UPDATE ... FOR EACH ROW EXECUTE FUNCTION update_updated_at_column():
\* NEW.updated_at = now(), on the rows that carry the column.
update_updated_at_column(new) ==
    IF "updated_at" \in DOMAIN new THEN [new EXCEPT !.updated_at = now] ELSE new

\* Removing the rows ids from table t.
Without(t, ids) == [k \in DOMAIN t \ ids |-> t[k]]

\* ON DELETE SET NULL of a column referencing profiles(id).
SetNull(v, id) == IF v = id THEN NULL ELSE v

\* gen_random_uuid(): an id no row of the table has.
FreshId(t, ids) == CHOOSE k \in ids \ DOMAIN t : \A j \in ids \ DOMAIN t : k <= j

\* The answers of the store to a writing statement.
\*   applied    : the statement changed its row
\*   filtered   : USING removed the row (or it does not exist); no error
\*   rejected   : the new row failed WITH CHECK; error, nothing written
\*   constraint : the new row violates a constraint; error, nothing written
InsertAnswer(allowed, valid) ==
    IF ~allowed THEN "rejected" ELSE IF ~valid THEN "constraint" ELSE "applied"

UpdateAnswer(visible, allowed, valid) ==
    IF ~visible THEN "filtered"
    ELSE IF ~allowed THEN "rejected"
    ELSE IF ~valid THEN "constraint" ELSE "applied"

DeleteAnswer(visible) == IF visible THEN "applied" ELSE "filtered"

\* What is recorded of a request: the command, the caller and the caller's
\* stored role when it was issued, the id it names, the targeted row before the
\* statement (old), the row the statement proposes (new), the store's answer,
\* and the ids returned by a SELECT or removed with a deleted inquiry (rows).
\* old and new are empty or singletons.
Request(op, uid, target, old, new, res, rows) ==
    [op |-> op, caller |-> uid, role |-> StoredRole(uid), target |-> target,
     old |-> old, new |-> new, res |-> res, rows |-> rows]

----------------------------------------------------------------------------
\* Values the requests are drawn from.

ProfileInserts == {ProfileRow(id, r, TRUE) : id \in Users, r \in Roles \cup {InvalidRole}}

ProfileSets ==
    {[role |-> r] : r \in Roles \cup {InvalidRole}} \cup {[is_active |-> b] : b \in BOOLEAN}

\* The Add Inquiry form sends status 'pending'; a statement may also leave the
\* status out or carry a value outside the CHECK list.
InquiryInserts(id) ==
    {InquiryRow(id, "pending", a, c) : a \in Users \cup {NULL}, c \in Users \cup {NULL}}
        \cup {InquiryRow(id, st, NULL, NULL) : st \in {DEFAULT, InvalidStatus}}

InquirySets ==
    {[status |-> st] : st \in Statuses \cup {InvalidStatus}}
        \cup {[assigned_to |-> a] : a \in Users \cup {NULL}}

\* The rows named by a statement over several inquiries: an UPDATE without a
\* WHERE clause names them all.
InquiryBatches == {InquiryIds}

FollowUpInserts(id) ==
    {FollowUpRow(id, i, "n1", c) : i \in InquiryIds, c \in Users \cup {NULL}}

FollowUpSets ==
    {[notes |-> n] : n \in Notes}
        \cup {[created_by |-> c] : c \in Users \cup {NULL}}
        \cup {[inquiry_id |-> i] : i \in InquiryIds}

----------------------------------------------------------------------------
\* The store once it is in use: after the migration, the README's "Create First
\* Admin User" (u1), the admin's provisioning of a co-leader (u2) and an
\* employee (u3), and a first inquiry that the admin assigned to the employee.
\* No form is open.
NoForm == [form |-> "none"]

InitialRole(id) ==
    IF id = "u1" THEN "admin" ELSE IF id = "u2" THEN "co_leader" ELSE "employee"

Init ==
    /\ profiles = [id \in Users |-> ProfileRow(id, InitialRole(id), TRUE)]
    /\ inquiries = [id \in {1} |-> InquiryRow(id, "pending", "u3", "u1")]
    /\ follow_ups = [id \in {} |-> NULL]
    /\ auth_users = Users
    /\ ui = NoForm
    /\ last = Request("init", NULL, NULL, {}, {}, "none", {})
    /\ nops = 0

\* One more request, while the budget of the run lasts.
Tick == nops < MaxOps /\ nops' = nops + 1

\* A statement sent to the record store by a caller: it is one request, and it
\* touches neither the identity provider's accounts nor a form.
Statement == Tick /\ UNCHANGED <<auth_users, ui>>

----------------------------------------------------------------------------
\* SELECT: the ids of the rows some SELECT policy admits.

VisibleProfiles(uid) == {id \in DOMAIN profiles : ProfilesSelectUsing(uid, profiles[id])}

VisibleInquiries(uid) == {id \in DOMAIN inquiries : InquiriesSelectUsing(uid, inquiries[id])}

VisibleFollowUps(uid) == {id \in DOMAIN follow_ups : FollowUpsSelectUsing(uid, follow_ups[id])}

SelectProfiles(uid) ==
    /\ last' = Request("select_profiles", uid, NULL, {}, {}, "rows", VisibleProfiles(uid))
    /\ UNCHANGED <<profiles, inquiries, follow_ups>>

SelectInquiries(uid) ==
    /\ last' = Request("select_inquiries", uid, NULL, {}, {}, "rows", VisibleInquiries(uid))
    /\ UNCHANGED <<profiles, inquiries, follow_ups>>

SelectFollowUps(uid) ==
    /\ last' = Request("select_follow_ups", uid, NULL, {}, {}, "rows", VisibleFollowUps(uid))
    /\ UNCHANGED <<profiles, inquiries, follow_ups>>

----------------------------------------------------------------------------
\* Profiles: INSERT, UPDATE ... WHERE id = target, DELETE ... WHERE id = target.

InsertProfile(uid, row) ==
    LET res == InsertAnswer(ProfilesInsertCheck(uid, row),
                            row.id \notin DOMAIN profiles /\ ProfileConstraints(row))
    IN  /\ profiles' = IF res = "applied" THEN profiles @@ (row.id :> row) ELSE profiles
        /\ last' = Request("insert_profile", uid, row.id, {}, {row}, res, {})
        /\ UNCHANGED <<inquiries, follow_ups>>

UpdateProfile(uid, target, set) ==
    LET old == IF target \in DOMAIN profiles THEN {profiles[target]} ELSE {}
        visible == \E r \in old : ProfilesUpdateUsing(uid, r)
        new == {update_updated_at_column(ApplySet(r, set)) : r \in old}
        allowed == \A r \in new : ProfilesUpdateCheck(uid, r)
        valid == \A r \in new : ProfileConstraints(r)
        res == UpdateAnswer(visible, allowed, valid)
    IN  /\ profiles' = IF res = "applied"
                       THEN [profiles EXCEPT ![target] = update_updated_at_column(ApplySet(@, set))]
                       ELSE profiles
        /\ last' = Request("update_profile", uid, target, old, new, res, {})
        /\ UNCHANGED <<inquiries, follow_ups>>

\* The referential actions fired by the removal of profile row target.
\* Mutant: inquiries.assigned_to declared ON DELETE CASCADE.
InquiriesAfterProfileDelete_Mutant(target) ==
    [i \in {j \in DOMAIN inquiries : inquiries[j].assigned_to # target} |->
        [inquiries[i] EXCEPT !.created_by = SetNull(@, target)]]

InquiriesAfterProfileDelete(target) ==
    [i \in DOMAIN inquiries |->
        [inquiries[i] EXCEPT !.assigned_to = SetNull(@, target),
                             !.created_by = SetNull(@, target)]]

FollowUpsAfterProfileDelete(target) ==
    [f \in DOMAIN follow_ups |->
        [follow_ups[f] EXCEPT !.created_by = SetNull(@, target)]]

DeleteProfile(uid, target) ==
    LET old == IF target \in DOMAIN profiles THEN {profiles[target]} ELSE {}
        res == DeleteAnswer(\E r \in old : ProfilesDeleteUsing(uid, r))
    IN  /\ IF res = "applied"
           THEN /\ profiles' = Without(profiles, {target})
                /\ inquiries' = InquiriesAfterProfileDelete(target)
                /\ follow_ups' = FollowUpsAfterProfileDelete(target)
           ELSE UNCHANGED <<profiles, inquiries, follow_ups>>
        /\ last' = Request("delete_profile", uid, target, old, {}, res, {})

\* supabase.auth.admin.deleteUser(target), the call behind "Remove" on the
\* Employees and Co-Leaders pages.  The identity provider decides on the API key
\* of the client, not on the policies, whether it accepts the call (accepted).
\* When it does, the account row goes and profiles.id REFERENCES auth.users(id)
\* ON DELETE CASCADE removes the profile, which fires the same referential
\* actions as a DELETE on profiles.
DeleteUser(target, accepted) ==
    LET old == IF target \in DOMAIN profiles THEN {profiles[target]} ELSE {}
        res == IF accepted THEN "applied" ELSE "refused"
    IN  /\ IF accepted
           THEN /\ auth_users' = auth_users \ {target}
                /\ profiles' = Without(profiles, {target})
                /\ inquiries' = InquiriesAfterProfileDelete(target)
                /\ follow_ups' = FollowUpsAfterProfileDelete(target)
           ELSE UNCHANGED <<auth_users, profiles, inquiries, follow_ups>>
        /\ last' = Request("delete_user", NULL, target, old, {}, res, {})
        /\ UNCHANGED ui

----------------------------------------------------------------------------
\* Inquiries: INSERT, UPDATE ... WHERE id = target, DELETE ... WHERE id = target.

\* status text NOT NULL DEFAULT 'pending'
WithDefaults(sent) == [sent EXCEPT !.status = IF @ = DEFAULT THEN "pending" ELSE @]

InsertInquiry(uid, sent) ==
    LET row == WithDefaults(sent)
        res == InsertAnswer(InquiriesInsertCheck(uid, row), InquiryConstraints(row))
    IN  /\ inquiries' = IF res = "applied" THEN inquiries @@ (row.id :> row) ELSE inquiries
        /\ last' = Request("insert_inquiry", uid, row.id, {}, {sent}, res, {})
        /\ UNCHANGED <<profiles, follow_ups>>

UpdateInquiry(uid, target, set) ==
    LET old == IF target \in DOMAIN inquiries THEN {inquiries[target]} ELSE {}
        visible == \E r \in old : InquiriesUpdateUsing(uid, r)
        new == {update_updated_at_column(ApplySet(r, set)) : r \in old}
        allowed == \A r \in new : InquiriesUpdateCheck(uid, r)
        valid == \A r \in new : InquiryConstraints(r)
        res == UpdateAnswer(visible, allowed, valid)
    IN  /\ inquiries' = IF res = "applied"
                        THEN [inquiries EXCEPT ![target] = update_updated_at_column(ApplySet(@, set))]
                        ELSE inquiries
        /\ last' = Request("update_inquiry", uid, target, old, new, res, {})
        /\ UNCHANGED <<profiles, follow_ups>>

\* Mutant: a statement naming a row its caller may not update is denied as a
\* whole.
UpdateInquiries_AllOrNothing(uid, targets, set) ==
    LET old == {inquiries[t] : t \in targets \cap DOMAIN inquiries}
        admitted == {t \in targets \cap DOMAIN inquiries :
                        InquiriesUpdateUsing(uid, inquiries[t])}
        new == {update_updated_at_column(ApplySet(inquiries[t], set)) : t \in admitted}
        allowed == \A r \in new : InquiriesUpdateCheck(uid, r)
        valid == \A r \in new : InquiryConstraints(r)
        res == UpdateAnswer(admitted # {} /\ admitted = targets \cap DOMAIN inquiries,
                            allowed, valid)
    IN  /\ inquiries' = IF res = "applied"
                        THEN [i \in DOMAIN inquiries |->
                                 IF i \in admitted
                                 THEN update_updated_at_column(ApplySet(inquiries[i], set))
                                 ELSE inquiries[i]]
                        ELSE inquiries
        /\ last' = Request("update_inquiries", uid, NULL, old, new, res,
                           IF res = "applied" THEN admitted ELSE {})
        /\ UNCHANGED <<profiles, follow_ups>>

\* UPDATE inquiries SET ... WHERE id IN targets, one statement over several
\* rows.  USING is evaluated row by row and keeps the rows the statement
\* touches (admitted); WITH CHECK and the constraints are evaluated on the new
\* version of every touched row, and one failure aborts the statement.
UpdateInquiries(uid, targets, set) ==
    LET old == {inquiries[t] : t \in targets \cap DOMAIN inquiries}
        admitted == {t \in targets \cap DOMAIN inquiries :
                        InquiriesUpdateUsing(uid, inquiries[t])}
        new == {update_updated_at_column(ApplySet(inquiries[t], set)) : t \in admitted}
        allowed == \A r \in new : InquiriesUpdateCheck(uid, r)
        valid == \A r \in new : InquiryConstraints(r)
        res == UpdateAnswer(admitted # {}, allowed, valid)
    IN  /\ inquiries' = IF res = "applied"
                        THEN [i \in DOMAIN inquiries |->
                                 IF i \in admitted
                                 THEN update_updated_at_column(ApplySet(inquiries[i], set))
                                 ELSE inquiries[i]]
                        ELSE inquiries
        /\ last' = Request("update_inquiries", uid, NULL, old, new, res,
                           IF res = "applied" THEN admitted ELSE {})
        /\ UNCHANGED <<profiles, follow_ups>>

\* The follow-ups owned by inquiry target.
FollowUpsOf(target) == {f \in DOMAIN follow_ups : follow_ups[f].inquiry_id = target}

\* Mutant: follow_ups.inquiry_id declared without ON DELETE CASCADE (and not
\* enforced): the follow-ups of a deleted inquiry stay.
DeleteInquiry_NoCascade(uid, target) ==
    LET old == IF target \in DOMAIN inquiries THEN {inquiries[target]} ELSE {}
        res == DeleteAnswer(\E r \in old : InquiriesDeleteUsing(uid, r))
    IN  /\ inquiries' = IF res = "applied" THEN Without(inquiries, {target}) ELSE inquiries
        /\ last' = Request("delete_inquiry", uid, target, old, {}, res,
                           IF res = "applied" THEN FollowUpsOf(target) ELSE {})
        /\ UNCHANGED <<profiles, follow_ups>>

\* Mutant: the follow-ups of the targeted inquiry are removed before the policy
\* of the inquiry is consulted, and stay removed when it denies.
DeleteInquiry_Mutant(uid, target) ==
    LET old == IF target \in DOMAIN inquiries THEN {inquiries[target]} ELSE {}
        res == DeleteAnswer(\E r \in old : InquiriesDeleteUsing(uid, r))
    IN  /\ inquiries' = IF res = "applied" THEN Without(inquiries, {target}) ELSE inquiries
        /\ follow_ups' = Without(follow_ups,
               {f \in DOMAIN follow_ups : follow_ups[f].inquiry_id = target})
        /\ last' = Request("delete_inquiry", uid, target, old, {}, res, {})
        /\ UNCHANGED profiles

\* follow_ups.inquiry_id REFERENCES inquiries(id) ON DELETE CASCADE.
DeleteInquiry(uid, target) ==
    LET old == IF target \in DOMAIN inquiries THEN {inquiries[target]} ELSE {}
        res == DeleteAnswer(\E r \in old : InquiriesDeleteUsing(uid, r))
    IN  /\ IF res = "applied"
           THEN /\ inquiries' = Without(inquiries, {target})
                /\ follow_ups' = Without(follow_ups, FollowUpsOf(target))
           ELSE UNCHANGED <<inquiries, follow_ups>>
        /\ last' = Request("delete_inquiry", uid, target, old, {}, res,
                           IF res = "applied" THEN FollowUpsOf(target) ELSE {})
        /\ UNCHANGED profiles

----------------------------------------------------------------------------
\* Follow-ups: INSERT, UPDATE ... WHERE id = target, DELETE ... WHERE id = target.

InsertFollowUp(uid, row) ==
    LET res == InsertAnswer(FollowUpsInsertCheck(uid, row), FollowUpConstraints(row))
    IN  /\ follow_ups' = IF res = "applied" THEN follow_ups @@ (row.id :> row) ELSE follow_ups
        /\ last' = Request("insert_follow_up", uid, row.id, {}, {row}, res, {})
        /\ UNCHANGED <<profiles, inquiries>>

UpdateFollowUp(uid, target, set) ==
    LET old == IF target \in DOMAIN follow_ups THEN {follow_ups[target]} ELSE {}
        visible == \E r \in old : FollowUpsUpdateUsing(uid, r)
        new == {ApplySet(r, set) : r \in old}
        allowed == \A r \in new : FollowUpsUpdateCheck(uid, r)
        valid == \A r \in new : FollowUpConstraints(r)
        res == UpdateAnswer(visible, allowed, valid)
    IN  /\ follow_ups' = IF res = "applied"
                         THEN [follow_ups EXCEPT ![target] = ApplySet(@, set)]
                         ELSE follow_ups
        /\ last' = Request("update_follow_up", uid, target, old, new, res, {})
        /\ UNCHANGED <<profiles, inquiries>>

DeleteFollowUp(uid, target) ==
    LET old == IF target \in DOMAIN follow_ups THEN {follow_ups[target]} ELSE {}
        res == DeleteAnswer(\E r \in old : FollowUpsDeleteUsing(uid, r))
    IN  /\ follow_ups' = IF res = "applied" THEN Without(follow_ups, {target}) ELSE follow_ups
        /\ last' = Request("delete_follow_up", uid, target, old, {}, res, {})
        /\ UNCHANGED <<profiles, inquiries>>

----------------------------------------------------------------------------
\* A request is issued by any caller.  A statement with a WHERE id = ... names a
\* stored row (one that names none touches nothing), and a profile is inserted
\* for an account that has none.
Next ==
    \/ \E uid \in Callers : Statement /\ SelectProfiles(uid)
    \/ \E uid \in Callers : Statement /\ SelectInquiries(uid)
    \/ \E uid \in Callers : Statement /\ SelectFollowUps(uid)
    \/ \E uid \in Callers, row \in ProfileInserts :
           row.id \notin DOMAIN profiles /\ Statement /\ InsertProfile(uid, row)
    \/ \E uid \in Callers, t \in DOMAIN profiles, set \in ProfileSets :
           Statement /\ UpdateProfile(uid, t, set)
    \/ \E uid \in Callers, t \in DOMAIN profiles : Statement /\ DeleteProfile(uid, t)
    \/ \E t \in DOMAIN profiles, accepted \in BOOLEAN : Tick /\ DeleteUser(t, accepted)
    \/ \E uid \in Callers : InquiryIds \ DOMAIN inquiries # {} /\
           \E row \in InquiryInserts(FreshId(inquiries, InquiryIds)) :
               Statement /\ InsertInquiry(uid, row)
    \/ \E uid \in Callers, t \in DOMAIN inquiries, set \in InquirySets :
           Statement /\ UpdateInquiry(uid, t, set)
    \/ \E uid \in Callers, ts \in InquiryBatches, set \in InquirySets :
           Statement /\ UpdateInquiries(uid, ts, set)
    \/ \E uid \in Callers, t \in DOMAIN inquiries : Statement /\ DeleteInquiry(uid, t)
    \/ \E uid \in Callers : FollowUpIds \ DOMAIN follow_ups # {} /\
           \E row \in FollowUpInserts(FreshId(follow_ups, FollowUpIds)) :
               Statement /\ InsertFollowUp(uid, row)
    \/ \E uid \in Callers, t \in DOMAIN follow_ups, set \in FollowUpSets :
           Statement /\ UpdateFollowUp(uid, t, set)
    \/ \E uid \in Callers, t \in DOMAIN follow_ups : Statement /\ DeleteFollowUp(uid, t)

Spec == Init /\ [][Next]_vars

----------------------------------------------------------------------------
\* The end-to-end run of the platform: an admin provisions an employee, creates
\* an inquiry, assigns it; the employee lists its inquiries and converts the
\* one it got; a co-leader lists the inquiries.  Each request of the run is the
\* statement of the store defined above, issued by the profile that plays the
\* part at that point of the run.

\* The store before the run: the first admin and a co-leader, the third account
\* signed up and still without a profile, and possibly an earlier inquiry.
ScenarioInit ==
    /\ profiles = [id \in {"u1", "u2"} |-> ProfileRow(id, InitialRole(id), TRUE)]
    /\ \/ inquiries = [id \in {} |-> NULL]
       \/ \E st \in Statuses, a \in {NULL, "u1", "u2"} :
              inquiries = [id \in {1} |-> InquiryRow(id, st, a, "u1")]
    /\ follow_ups = [id \in {} |-> NULL]
    /\ auth_users = Users
    /\ ui = NoForm
    /\ last = Request("init", NULL, NULL, {}, {}, "none", {})
    /\ nops = 0

\* The requests of the run, in order.
ScenarioSteps ==
    <<"insert_profile", "insert_inquiry", "update_inquiry",
      "select_inquiries", "update_inquiry", "select_inquiries">>

\* The run is at its k-th request.
AtStep(k) ==
    /\ nops = k - 1 /\ k <= Len(ScenarioSteps) /\ nops' = nops + 1
    /\ UNCHANGED <<auth_users, ui>>

WithRole(r) == {p \in DOMAIN profiles : profiles[p].role = r}

ScenarioCreateEmployee ==
    /\ AtStep(1)
    /\ \E a \in WithRole("admin"), b \in Users \ DOMAIN profiles :
           InsertProfile(a, ProfileRow(b, "employee", TRUE))

ScenarioCreateInquiry ==
    /\ AtStep(2)
    /\ InquiryIds \ DOMAIN inquiries # {}
    /\ \E a \in WithRole("admin") : \E c \in {a, NULL} :
           InsertInquiry(a, InquiryRow(FreshId(inquiries, InquiryIds), "pending", NULL, c))

\* The inquiry assigned is the one the previous request created.
ScenarioAssign ==
    /\ AtStep(3)
    /\ \E a \in WithRole("admin"), b \in WithRole("employee") :
           UpdateInquiry(a, last.target, [assigned_to |-> b])

ScenarioEmployeeSelects ==
    /\ AtStep(4)
    /\ \E b \in WithRole("employee") : SelectInquiries(b)

\* The inquiry converted is one the employee's select returned.
ScenarioEmployeeConverts ==
    /\ AtStep(5)
    /\ \E b \in WithRole("employee"), i \in last.rows :
           UpdateInquiry(b, i, [status |-> "converted"])

ScenarioCoLeaderSelects ==
    /\ AtStep(6)
    /\ \E c \in WithRole("co_leader") : SelectInquiries(c)

ScenarioNext ==
    \/ ScenarioCreateEmployee
    \/ ScenarioCreateInquiry
    \/ ScenarioAssign
    \/ ScenarioEmployeeSelects
    \/ ScenarioEmployeeConverts
    \/ ScenarioCoLeaderSelects

ScenarioSpec == ScenarioInit /\ [][ScenarioNext]_vars

----------------------------------------------------------------------------
\* Properties.  In the formulas below `last` is the request just answered:
\* last.role is the caller's stored role when it was issued, last.old the
\* targeted row before it and last.new the row it proposed.

IsEmployee(uid) == uid \in DOMAIN profiles /\ profiles[uid].role = "employee"

\* C1: in every reachable store state, for every inquiry i and every caller e
\* whose stored role is employee, e's select of inquiries returns i if and only
\* if i.assigned_to = e.id; unassigned inquiries and inquiries assigned to
\* others are never returned.
C1_EmployeeSelectsExactlyAssigned ==
    /\ \A e \in Users : IsEmployee(e) =>
           \A i \in DOMAIN inquiries :
               i \in VisibleInquiries(e) <=> inquiries[i].assigned_to = e
    /\ (last.op = "select_inquiries" /\ last.role = "employee") =>
           last.rows = {i \in DOMAIN inquiries : inquiries[i].assigned_to = last.caller}

\* An employee's select returned one inquiry and left out another one.
C1_Witness ==
    /\ last.op = "select_inquiries"
    /\ last.role = "employee"
    /\ last.rows # {}
    /\ DOMAIN inquiries \ last.rows # {}

\* C2: an update of inquiry i requested by an employee e is denied whenever the
\* stored i.assigned_to differs from e.id (absent included) when the request is
\* made, whichever fields it sets; the stored row is unchanged.
C2_EmployeeUpdateOfUnassignedDenied ==
    (/\ last.op = "update_inquiry"
     /\ last.role = "employee"
     /\ \E r \in last.old : r.assigned_to # last.caller)
        => /\ last.res \in {"filtered", "rejected"}
           /\ last.target \in DOMAIN inquiries
           /\ inquiries[last.target] \in last.old

\* An employee asked to change an inquiry assigned to nobody or to another profile.
C2_Witness ==
    /\ last.op = "update_inquiry"
    /\ last.role = "employee"
    /\ \E r \in last.old : r.assigned_to # last.caller /\ r \notin last.new
    /\ last.res = "filtered"

\* C3: an employee e updating an inquiry currently assigned to e cannot set
\* assigned_to to any value other than e.id (another profile or absent): the
\* update is rejected by the check on the new row, and the row keeps its values.
C3_EmployeeCannotReassign ==
    (/\ last.op = "update_inquiry"
     /\ last.role = "employee"
     /\ \E r \in last.old : r.assigned_to = last.caller
     /\ \E n \in last.new : n.assigned_to # last.caller)
        => /\ last.res = "rejected"
           /\ last.target \in DOMAIN inquiries
           /\ inquiries[last.target] \in last.old

\* The assigned employee asked to hand the inquiry to someone else.
C3_Witness ==
    /\ last.op = "update_inquiry"
    /\ last.role = "employee"
    /\ \E r \in last.old : r.assigned_to = last.caller
    /\ \E n \in last.new : n.assigned_to \notin {last.caller, NULL}
    /\ last.res = "rejected"

\* C4: a delete of an existing inquiry or profile is applied if and only if the
\* caller's stored role is admin; for every other caller (a co_leader, an
\* employee, even the one the inquiry is assigned to) the row is still present.
C4_OnlyAdminDeletes ==
    /\ (last.op = "delete_inquiry" /\ last.old # {}) =>
           /\ last.res = "applied" <=> last.role = "admin"
           /\ last.role # "admin" =>
                  last.target \in DOMAIN inquiries /\ inquiries[last.target] \in last.old
           /\ last.role = "admin" => last.target \notin DOMAIN inquiries
    /\ (last.op = "delete_profile" /\ last.old # {}) =>
           /\ last.res = "applied" <=> last.role = "admin"
           /\ last.role # "admin" =>
                  last.target \in DOMAIN profiles /\ profiles[last.target] \in last.old
           /\ last.role = "admin" => last.target \notin DOMAIN profiles

\* The employee an inquiry is assigned to asked to delete it; it is still there.
C4_Witness ==
    /\ last.op = "delete_inquiry"
    /\ last.role = "employee"
    /\ \E r \in last.old : r.assigned_to = last.caller
    /\ last.res = "filtered"
    /\ last.target \in DOMAIN inquiries

\* C5: a profile insert or a profile update (role change, is_active toggle) is
\* applied only when the caller's stored role is admin; in every step, a request
\* by a caller whose stored role is not admin changes the role of no profile,
\* the caller's own included, and adds no profile.
C5_OnlyAdminWritesProfiles ==
    [][/\ (last'.op \in {"insert_profile", "update_profile"} /\ last'.res = "applied")
            => StoredRole(last'.caller) = "admin"
       /\ StoredRole(last'.caller) # "admin"
            => /\ DOMAIN profiles' \subseteq DOMAIN profiles
               /\ \A p \in DOMAIN profiles' : profiles'[p].role = profiles[p].role
                                           /\ profiles'[p].is_active = profiles[p].is_active
      ]_vars

\* A co-leader asked to make itself admin; its role is still co_leader.
C5_Witness ==
    /\ last.op = "update_profile"
    /\ last.role = "co_leader"
    /\ last.target = last.caller
    /\ \E n \in last.new : n.role = "admin"
    /\ last.res = "filtered"
    /\ profiles[last.caller].role = "co_leader"

\* C6: for every caller p that has a profile, a select of profiles returns every
\* profile row when p.role is admin or co_leader, and exactly the row p when
\* p.role is employee.
C6_ProfileVisibility ==
    /\ \A p \in DOMAIN profiles :
           /\ profiles[p].role \in {"admin", "co_leader"} => VisibleProfiles(p) = DOMAIN profiles
           /\ profiles[p].role = "employee" => VisibleProfiles(p) = {p}
    /\ (last.op = "select_profiles" /\ last.role \in {"admin", "co_leader"}) =>
           last.rows = DOMAIN profiles
    /\ (last.op = "select_profiles" /\ last.role = "employee") =>
           last.rows = {last.caller}

\* An employee selected profiles while other profiles existed and got its own row.
C6_Witness ==
    /\ last.op = "select_profiles"
    /\ last.role = "employee"
    /\ last.rows = {last.caller}
    /\ \E p \in DOMAIN profiles : p # last.caller /\ profiles[p].role = "employee"

\* What the caller of the last request can select, for C7.  An insert into
\* follow_ups changes neither profiles nor inquiries, so this is also what the
\* caller could select when the insert was requested.
CouldSelectInquiry(uid, i) == i \in VisibleInquiries(uid)

\* C7: an insert of a follow-up for inquiry i by caller c passes the policies
\* if and only if c could select i when it was made (c is admin or co_leader,
\* or i.assigned_to = c.id), and the row is written exactly when it passes them
\* and meets the constraints of the schema; an employee cannot add a follow-up to
\* an inquiry that is unassigned or assigned to someone else.
C7_FollowUpInsertIffParentVisible ==
    last.op = "insert_follow_up" =>
        \A n \in last.new :
            /\ last.res = "rejected" <=> ~CouldSelectInquiry(last.caller, n.inquiry_id)
            /\ last.res = "applied" <=>
                   (CouldSelectInquiry(last.caller, n.inquiry_id) /\ FollowUpConstraints(n))
            /\ last.res = "applied" <=>
                   (last.target \in DOMAIN follow_ups /\ follow_ups[last.target] = n)
            /\ (last.role = "employee" /\ n.inquiry_id \in DOMAIN inquiries
                    /\ inquiries[n.inquiry_id].assigned_to # last.caller)
                   => last.res = "rejected"

\* An employee's follow-up for an existing inquiry not assigned to it was
\* rejected.
C7_Witness ==
    /\ last.op = "insert_follow_up"
    /\ last.role = "employee"
    /\ last.res = "rejected"
    /\ \E n \in last.new : n.inquiry_id \in DOMAIN inquiries
                           /\ inquiries[n.inquiry_id].assigned_to # last.caller
    /\ follow_ups = << >>

C9_FollowUpsGoOnlyWithTheirInquiry ==
    [][/\ last'.op = "delete_follow_up"
            => last'.res = "filtered" /\ follow_ups' = follow_ups
       /\ \A f \in DOMAIN follow_ups \ DOMAIN follow_ups' :
            /\ last'.op = "delete_inquiry"
            /\ last'.res = "applied"
            /\ last'.target = follow_ups[f].inquiry_id
      ]_vars

\* An admin asked to delete an existing follow-up; it is still there.
C9_Witness ==
    /\ last.op = "delete_follow_up"
    /\ last.role = "admin"
    /\ last.old # {}
    /\ last.target \in DOMAIN follow_ups
    /\ follow_ups[last.target] \in last.old

\* C10: in every reachable state a caller can select a follow-up if and only if
\* the caller can select its parent inquiry; once an inquiry has been reassigned
\* away from an employee, that employee selects no follow-up of it, those the
\* employee created included.
C10_FollowUpVisibleIffInquiryVisible ==
    /\ \A c \in Callers, f \in DOMAIN follow_ups :
           f \in VisibleFollowUps(c) <=> follow_ups[f].inquiry_id \in VisibleInquiries(c)
    /\ last.op = "select_follow_ups" =>
           last.rows = {f \in DOMAIN follow_ups :
                            follow_ups[f].inquiry_id \in VisibleInquiries(last.caller)}
    /\ (last.op = "update_inquiry" /\ last.res = "applied") =>
           \A r \in last.old, n \in last.new, e \in Users :
               (IsEmployee(e) /\ r.assigned_to = e /\ n.assigned_to # e) =>
                   \A f \in DOMAIN follow_ups :
                       follow_ups[f].inquiry_id = last.target => f \notin VisibleFollowUps(e)

\* An inquiry was reassigned away from an employee who had created a follow-up
\* of it.
C10_Witness ==
    /\ last.op = "update_inquiry"
    /\ last.res = "applied"
    /\ \E r \in last.old, n \in last.new, e \in Users :
           /\ IsEmployee(e)
           /\ r.assigned_to = e
           /\ n.assigned_to # e
           /\ \E f \in DOMAIN follow_ups :
                  follow_ups[f].inquiry_id = last.target /\ follow_ups[f].created_by = e

\* C11: an insert of an inquiry passes the policies if and only if the caller's
\* stored role is admin or co_leader, and the row is written exactly when it
\* passes them and meets the constraints of the schema; an employee's insert is
\* rejected whatever the new row carries, assigned_to equal to the employee's
\* own id included, and no row is added.
C11_InquiryInsertByAdminOrCoLeader ==
    last.op = "insert_inquiry" =>
        \A n \in last.new :
            /\ last.res # "rejected" <=> last.role \in {"admin", "co_leader"}
            /\ last.res = "applied" <=>
                   (last.role \in {"admin", "co_leader"} /\ InquiryConstraints(WithDefaults(n)))
            /\ last.res = "applied" <=>
                   (last.target \in DOMAIN inquiries
                        /\ inquiries[last.target] = WithDefaults(n))
            /\ last.role = "employee" =>
                   (last.res = "rejected" /\ last.target \notin DOMAIN inquiries)

\* An employee's insert of an inquiry assigned to itself was rejected.
C11_Witness ==
    /\ last.op = "insert_inquiry"
    /\ last.role = "employee"
    /\ \E n \in last.new : n.assigned_to = last.caller
    /\ last.res = "rejected"
    /\ last.target \notin DOMAIN inquiries

\* The statements the policies decide.
SelectOps == {"select_profiles", "select_inquiries", "select_follow_ups"}
InsertOps == {"insert_profile", "insert_inquiry", "insert_follow_up"}
UpdateOps == {"update_profile", "update_inquiry", "update_inquiries", "update_follow_up"}
DeleteOps == {"delete_profile", "delete_inquiry", "delete_follow_up"}

\* C12: when the caller identity is absent, every policy denies, in every store
\* state: no row of any of the three tables is selectable, a select returns no
\* row, an insert is rejected, an update or delete touches no row, and the
\* request leaves the three tables as they were.
C12_UnauthenticatedDeniedEverywhere ==
    [][/\ VisibleProfiles(NULL) = {}
       /\ VisibleInquiries(NULL) = {}
       /\ VisibleFollowUps(NULL) = {}
       /\ (last'.caller = NULL /\ last'.op \in SelectOps) => last'.rows = {}
       /\ (last'.caller = NULL /\ last'.op \in InsertOps) => last'.res = "rejected"
       /\ (last'.caller = NULL /\ last'.op \in UpdateOps \cup DeleteOps)
              => last'.res = "filtered"
       /\ (last'.caller = NULL /\ last'.op \in InsertOps \cup UpdateOps \cup DeleteOps)
              => UNCHANGED <<profiles, inquiries, follow_ups>>
      ]_vars

\* An unauthenticated caller selected inquiries while inquiries were stored, and
\* got none.
C12_Witness ==
    /\ last.op = "select_inquiries"
    /\ last.caller = NULL
    /\ last.rows = {}
    /\ DOMAIN inquiries # {}
    /\ \E i \in DOMAIN inquiries : inquiries[i].assigned_to = NULL

\* C13: in every step, an insert, update or delete that the policies deny (the
\* new row is rejected, or no row is admitted) leaves the contents of all three
\* tables identical to what they were before the request.
C13_DeniedWriteChangesNothing ==
    [][(/\ last'.op \in InsertOps \cup UpdateOps \cup DeleteOps
        /\ last'.res \in {"rejected", "filtered"})
           => UNCHANGED <<profiles, inquiries, follow_ups>>
      ]_vars

\* A co-leader asked to delete an inquiry that has a follow-up; the inquiry and
\* the follow-up are both still stored.
C13_Witness ==
    /\ last.op = "delete_inquiry"
    /\ last.role = "co_leader"
    /\ last.res = "filtered"
    /\ last.target \in DOMAIN inquiries
    /\ \E f \in DOMAIN follow_ups : follow_ups[f].inquiry_id = last.target

\* Every profile reference of an inquiry or follow-up is absent or names a
\* stored profile.
NoDanglingProfileReference ==
    /\ \A i \in DOMAIN inquiries :
           /\ inquiries[i].assigned_to \in DOMAIN profiles \cup {NULL}
           /\ inquiries[i].created_by \in DOMAIN profiles \cup {NULL}
    /\ \A f \in DOMAIN follow_ups : follow_ups[f].created_by \in DOMAIN profiles \cup {NULL}

NoOrphanedFollowUp ==
    \A f \in DOMAIN follow_ups : follow_ups[f].inquiry_id \in DOMAIN inquiries

\* C15: in every step that deletes an inquiry i, every follow-up whose
\* inquiry_id = i.id is deleted in that step and every other follow-up and
\* inquiry is kept as it was; before and after every step every follow-up's
\* inquiry_id references a stored inquiry.
C15_InquiryDeleteCascades ==
    [][/\ NoOrphanedFollowUp
       /\ NoOrphanedFollowUp'
       /\ (last'.op = "delete_inquiry" /\ last'.res = "applied")
            => /\ DOMAIN inquiries' = DOMAIN inquiries \ {last'.target}
               /\ \A i \in DOMAIN inquiries' : inquiries'[i] = inquiries[i]
               /\ DOMAIN follow_ups' =
                      {f \in DOMAIN follow_ups : follow_ups[f].inquiry_id # last'.target}
               /\ \A f \in DOMAIN follow_ups' : follow_ups'[f] = follow_ups[f]
      ]_vars

\* An inquiry that had a follow-up has just been deleted, and the follow-up
\* with it.
C15_Witness ==
    /\ last.op = "delete_inquiry"
    /\ last.res = "applied"
    /\ last.rows # {}
    /\ last.target \notin DOMAIN inquiries
    /\ last.rows \cap DOMAIN follow_ups = {}

\* C16: in every step, the assigned_to of a stored inquiry changes value only
\* when the step is an applied update reaching that inquiry by a caller whose stored
\* role is then admin or co_leader, or the set-to-absent caused by deleting the
\* profile it referenced; a request by a caller whose stored role is employee
\* changes the assigned_to of no inquiry.
C16_AssignmentOnlyByAdminOrCoLeader ==
    [][\A i \in DOMAIN inquiries \cap DOMAIN inquiries' :
           /\ inquiries'[i].assigned_to # inquiries[i].assigned_to =>
                \/ /\ last'.op = "update_inquiry"
                   /\ last'.res = "applied"
                   /\ last'.target = i
                   /\ StoredRole(last'.caller) \in {"admin", "co_leader"}
                \/ /\ last'.op = "update_inquiries"
                   /\ last'.res = "applied"
                   /\ i \in last'.rows
                   /\ StoredRole(last'.caller) \in {"admin", "co_leader"}
                \/ /\ last'.op \in {"delete_profile", "delete_user"}
                   /\ last'.res = "applied"
                   /\ inquiries[i].assigned_to = last'.target
                   /\ inquiries'[i].assigned_to = NULL
           /\ StoredRole(last'.caller) = "employee" =>
                inquiries'[i].assigned_to = inquiries[i].assigned_to
      ]_vars

\* An employee asked to assign an unassigned inquiry to itself; the inquiry is
\* still unassigned.
C16_Witness ==
    /\ last.op = "update_inquiry"
    /\ last.role = "employee"
    /\ \E r \in last.old : r.assigned_to = NULL
    /\ \E n \in last.new : n.assigned_to = last.caller
    /\ last.target \in DOMAIN inquiries
    /\ inquiries[last.target].assigned_to = NULL

\* C17: in every step, the decision is the one the policies give for the role
\* stored for the caller in profiles when the request is made, whatever role the
\* caller had before: a select of inquiries or profiles returns every row for a
\* stored admin or co_leader and only the caller's own rows otherwise, an
\* inquiry insert is rejected unless the stored role is admin or co_leader, an
\* inquiry update is skipped unless the stored role is admin or co_leader or the
\* row is assigned to the caller, and profile writes and inquiry deletes are
\* applied for a stored admin only.
C17_DecisionsUseStoredRole ==
    [][LET c == last'.caller
           r == StoredRole(c)
       IN  /\ last'.op = "select_inquiries" =>
                 last'.rows = IF r \in {"admin", "co_leader"}
                              THEN DOMAIN inquiries
                              ELSE {i \in DOMAIN inquiries :
                                        c # NULL /\ inquiries[i].assigned_to = c}
           /\ last'.op = "select_profiles" =>
                 last'.rows = IF r \in {"admin", "co_leader"}
                              THEN DOMAIN profiles
                              ELSE {c} \cap DOMAIN profiles
           /\ last'.op = "insert_inquiry" =>
                 (last'.res = "rejected" <=> r \notin {"admin", "co_leader"})
           /\ (last'.op = "update_inquiry" /\ last'.old # {}) =>
                 (last'.res = "filtered" <=>
                      /\ r \notin {"admin", "co_leader"}
                      /\ \A o \in last'.old : c = NULL \/ o.assigned_to # c)
           /\ (last'.op \in {"insert_profile", "update_profile", "delete_profile",
                             "delete_inquiry"} /\ last'.res = "applied") => r = "admin"
           /\ (last'.op \in {"update_profile", "delete_profile", "delete_inquiry"}
                   /\ last'.old # {} /\ r = "admin") => last'.res # "filtered"
      ]_vars

\* The co-leader was demoted to employee by the first request; its select of
\* inquiries, the second request, returned none of the stored inquiries, none
\* being assigned to it.
C17_Witness ==
    /\ nops = 2
    /\ last.op = "select_inquiries"
    /\ last.caller = "u2"
    /\ last.role = "employee"
    /\ profiles["u2"].role = "employee"
    /\ last.rows = {}
    /\ DOMAIN inquiries # {}

\* The rows of a statement over several inquiries that its caller may update:
\* rows the caller's USING predicate admits and whose new version passes the
\* caller's WITH CHECK predicate and the constraints, each row taken alone.
RowsDecidedAlone ==
    {o.id : o \in {o \in last.old :
        /\ InquiriesUpdateUsing(last.caller, o)
        /\ \E n \in last.new :
               /\ n.id = o.id
               /\ InquiriesUpdateCheck(last.caller, n)
               /\ InquiryConstraints(n)}}

\* C18: after one update request that names several inquiries, the rows
\* rewritten are exactly the named rows for which the caller's predicates hold,
\* each row decided alone, every rewritten row holds its proposed version and
\* the other named rows are stored as they were; when the caller's stored role
\* is employee and the request is applied, the rows rewritten are exactly the
\* named rows assigned to that employee.
C18_BatchUpdateDecidedPerRow ==
    last.op = "update_inquiries" =>
        /\ last.rows = RowsDecidedAlone
        /\ \A o \in last.old :
               /\ o.id \in DOMAIN inquiries
               /\ o.id \in last.rows => inquiries[o.id] \in last.new
               /\ o.id \notin last.rows => inquiries[o.id] = o
        /\ (last.role = "employee" /\ last.res = "applied") =>
               last.rows = {o.id : o \in {o \in last.old : o.assigned_to = last.caller}}

\* An employee's update of the status of two inquiries rewrote the one assigned
\* to it and left the other as it was.
C18_Witness ==
    /\ last.op = "update_inquiries"
    /\ last.role = "employee"
    /\ last.res = "applied"
    /\ \E o \in last.old : o.id \in last.rows /\ inquiries[o.id] # o
    /\ \E o \in last.old : o.id \notin last.rows /\ inquiries[o.id] = o

\* The stored roles and statuses are those of the CHECK lists.
StoredValuesEnumerated ==
    /\ \A p \in DOMAIN profiles : profiles[p].role \in {"admin", "co_leader", "employee"}
    /\ \A i \in DOMAIN inquiries : inquiries[i].status \in {"pending", "converted", "dropped"}

\* C19: before and after every step every profile's role is one of admin,
\* co_leader, employee and every inquiry's status is one of pending, converted,
\* dropped; a write that would store any other role or status is not applied
\* and leaves the three tables as they were; an inquiry inserted without a
\* status, or with the status the Add Inquiry form sends, is stored with status
\* pending.
C19_RoleAndStatusEnumerated ==
    [][/\ StoredValuesEnumerated
       /\ StoredValuesEnumerated'
       /\ (/\ last'.op \in {"insert_profile", "update_profile"}
           /\ \E n \in last'.new : n.role = InvalidRole)
            => (last'.res # "applied" /\ UNCHANGED <<profiles, inquiries, follow_ups>>)
       /\ (/\ last'.op \in {"insert_inquiry", "update_inquiry", "update_inquiries"}
           /\ \E n \in last'.new : n.status = InvalidStatus)
            => (last'.res # "applied" /\ UNCHANGED <<profiles, inquiries, follow_ups>>)
       /\ (/\ last'.op = "insert_inquiry"
           /\ last'.res = "applied"
           /\ \E n \in last'.new : n.status \in {DEFAULT, "pending"})
            => (last'.target \in DOMAIN inquiries'
                   /\ inquiries'[last'.target].status = "pending")
      ]_vars

\* An admin's insert of an inquiry that names no status was applied; the stored
\* row has status pending.
C19_Witness ==
    /\ last.op = "insert_inquiry"
    /\ last.role = "admin"
    /\ last.res = "applied"
    /\ \E n \in last.new : n.status = DEFAULT
    /\ inquiries[last.target].status = "pending"

\* C20: the end-to-end run is allowed, request by request.  After its first
\* request the employee profile B is stored; after the second the new inquiry I1
\* is stored with status pending and unassigned; after the third I1 is assigned
\* to B; the employee's select, the fourth, returns exactly I1; the employee's
\* update, the fifth, is applied and I1 has status converted; the co-leader's
\* select, the sixth, returns I1 with status converted.
C20_EndToEndScenarioAllowed ==
    /\ nops = 1 =>
           /\ last.op = "insert_profile" /\ last.role = "admin" /\ last.res = "applied"
           /\ last.target \in DOMAIN profiles
           /\ profiles[last.target].role = "employee"
    /\ nops = 2 =>
           /\ last.op = "insert_inquiry" /\ last.role = "admin" /\ last.res = "applied"
           /\ last.target \in DOMAIN inquiries
           /\ inquiries[last.target].status = "pending"
           /\ inquiries[last.target].assigned_to = NULL
    /\ nops = 3 =>
           /\ last.op = "update_inquiry" /\ last.role = "admin" /\ last.res = "applied"
           /\ \E o \in last.old : o.assigned_to = NULL /\ o.status = "pending"
           /\ IsEmployee(inquiries[last.target].assigned_to)
    /\ nops = 4 =>
           /\ last.op = "select_inquiries" /\ last.role = "employee"
           /\ Cardinality(last.rows) = 1
           /\ \A i \in DOMAIN inquiries :
                  i \in last.rows <=> inquiries[i].assigned_to = last.caller
    /\ nops = 5 =>
           /\ last.op = "update_inquiry" /\ last.role = "employee" /\ last.res = "applied"
           /\ \E o \in last.old : o.status = "pending" /\ o.assigned_to = last.caller
           /\ inquiries[last.target].status = "converted"
           /\ inquiries[last.target].assigned_to = last.caller
    /\ nops = 6 =>
           /\ last.op = "select_inquiries" /\ last.role = "co_leader"
           /\ last.rows = DOMAIN inquiries
           /\ \E i \in last.rows :
                  inquiries[i].status = "converted" /\ IsEmployee(inquiries[i].assigned_to)

\* The run has reached its end next to an earlier inquiry: the co-leader's
\* select returned the converted inquiry of the employee and the earlier one.
C20_Witness ==
    /\ nops = Len(ScenarioSteps)
    /\ last.op = "select_inquiries"
    /\ last.role = "co_leader"
    /\ \E i, j \in last.rows :
           /\ i # j
           /\ inquiries[i].status = "converted"
           /\ IsEmployee(inquiries[i].assigned_to)
           /\ ~IsEmployee(inquiries[j].assigned_to)

----------------------------------------------------------------------------
\* The client-side gates.  Each page reads the caller's profile from the auth
\* context (profile, absent while there is no row) and shows a control only
\* when its gate is true.  A profile snapshot is the empty set or one row.

\* The snapshot of a caller whose cached profile equals the stored row.
CachedProfile(uid) == {profiles[p] : p \in DOMAIN profiles \cap {uid}}

canCreateInquiry(profile) ==
    \E p \in profile : p.role = "admin" \/ p.role = "co_leader"

canAssignInquiry(profile) ==
    \E p \in profile : p.role = "admin" \/ p.role = "co_leader"

\* Mutant: the Edit control is shown to admins and to the assignee only.
canEdit_Mutant(profile, inquiry) ==
    \E p \in profile : p.role = "admin" \/ inquiry.assigned_to = p.id

canEdit(profile, inquiry) ==
    \E p \in profile :
        p.role = "admin" \/ p.role = "co_leader" \/ inquiry.assigned_to = p.id

canDelete(profile) == \E p \in profile : p.role = "admin"

\* The store's decision on UPDATE inquiries SET set WHERE id = old.id.
InquiryUpdateAllowed(uid, old, set) ==
    /\ InquiriesUpdateUsing(uid, old)
    /\ InquiriesUpdateCheck(uid, ApplySet(old, set))

\* C21: with the cached profile and the inquiry snapshot equal to the stored
\* rows, every client gate agrees with the store's policies, for every caller
\* and every stored inquiry: canCreateInquiry with the INSERT policy of
\* inquiries (whatever row is sent), canAssignInquiry with an UPDATE that
\* changes assigned_to, canEdit with an UPDATE of status and with the INSERT of
\* a follow-up of that inquiry, canDelete with the DELETE policy.
C21_ClientGatesAgreeWithPolicies ==
    \A uid \in Callers :
        LET profile == CachedProfile(uid)
        IN  /\ \A id \in InquiryIds : \A row \in InquiryInserts(id) :
                   canCreateInquiry(profile) <=> InquiriesInsertCheck(uid, row)
            /\ \A i \in DOMAIN inquiries :
                   LET inquiry == inquiries[i]
                   IN  /\ canAssignInquiry(profile) <=>
                              \E a \in Users \cup {NULL} :
                                  /\ a # inquiry.assigned_to
                                  /\ InquiryUpdateAllowed(uid, inquiry, [assigned_to |-> a])
                       /\ \A st \in Statuses :
                              canEdit(profile, inquiry) <=>
                                  InquiryUpdateAllowed(uid, inquiry, [status |-> st])
                       /\ \A n \in Notes, f \in FollowUpIds :
                              canEdit(profile, inquiry) <=>
                                  FollowUpsInsertCheck(uid, FollowUpRow(f, i, n, uid))
                       /\ canDelete(profile) <=> InquiriesDeleteUsing(uid, inquiry)

\* An employee has just updated the status of the inquiry assigned to it, as
\* its Edit gate announced, while its other three gates are closed.
C21_Witness ==
    /\ last.op = "update_inquiry" /\ last.role = "employee" /\ last.res = "applied"
    /\ \E i \in DOMAIN inquiries :
           /\ i = last.target
           /\ canEdit(CachedProfile(last.caller), inquiries[i])
           /\ InquiryUpdateAllowed(last.caller, inquiries[i], [status |-> "dropped"])
    /\ ~canAssignInquiry(CachedProfile(last.caller))
    /\ ~canCreateInquiry(CachedProfile(last.caller))
    /\ ~canDelete(CachedProfile(last.caller))

----------------------------------------------------------------------------
\* The two ways of reading the UPDATE policies of inquiries.

\* (a) some policy's USING holds on the old row and some policy's WITH CHECK,
\* possibly of another policy, holds on the new row.
AllowedAcrossPolicies(uid, old, new) ==
    InquiriesUpdateUsing(uid, old) /\ InquiriesUpdateCheck(uid, new)

\* (b) one policy's USING holds on the old row and the same policy's WITH CHECK
\* holds on the new row.
AllowedBySinglePolicy(uid, old, new) ==
    /\ Authenticated(uid)
    /\ \/ /\ AdminsAndCoLeadersCanUpdateAllInquiriesUsing(uid, old)
          /\ AdminsAndCoLeadersCanUpdateAllInquiriesCheck(uid, new)
       \/ /\ EmployeesCanUpdateAssignedInquiriesUsing(uid, old)
          /\ EmployeesCanUpdateAssignedInquiriesCheck(uid, new)

\* The rows an UPDATE can turn the row old into: the id stays.
InquiryRowsAfter(old) ==
    {InquiryRow(old.id, st, a, c) :
        st \in Statuses, a \in Users \cup {NULL}, c \in Users \cup {NULL}}

\* C23: for every caller, every stored inquiry as the old row and every new
\* row of an update, reading the policies as "OR over the USING clauses, then
\* OR over the WITH CHECK clauses" gives the same decision as reading them as
\* "one policy whose USING and WITH CHECK both hold".
C23_PolicyEvaluationModelsAgree ==
    \A uid \in Callers : \A i \in DOMAIN inquiries : \A new \in InquiryRowsAfter(inquiries[i]) :
        AllowedAcrossPolicies(uid, inquiries[i], new)
            <=> AllowedBySinglePolicy(uid, inquiries[i], new)

\* An update was applied whose old row passes the USING of the admin and
\* co-leader policy only, and whose new row passes the WITH CHECK of the
\* employee policy as well: the clauses that hold come from different policies.
C23_Witness ==
    /\ last.op = "update_inquiry" /\ last.res = "applied"
    /\ \E o \in last.old, n \in last.new :
           /\ AdminsAndCoLeadersCanUpdateAllInquiriesUsing(last.caller, o)
           /\ ~EmployeesCanUpdateAssignedInquiriesUsing(last.caller, o)
           /\ EmployeesCanUpdateAssignedInquiriesCheck(last.caller, n)
           /\ AllowedAcrossPolicies(last.caller, o, n)
           /\ AllowedBySinglePolicy(last.caller, o, n)

----------------------------------------------------------------------------
\* Every decision the policies take in the current store: per caller, the rows
\* each SELECT returns and the statements of each other command that pass the
\* policies (an UPDATE as the pair of its target and its SET list).
Decisions ==
    [uid \in Callers |->
        [select_profiles |-> VisibleProfiles(uid),
         select_inquiries |-> VisibleInquiries(uid),
         select_follow_ups |-> VisibleFollowUps(uid),
         insert_profile |-> {row \in ProfileInserts : ProfilesInsertCheck(uid, row)},
         update_profile |->
             {<<t, set>> \in (DOMAIN profiles) \X ProfileSets :
                 /\ ProfilesUpdateUsing(uid, profiles[t])
                 /\ ProfilesUpdateCheck(uid, ApplySet(profiles[t], set))},
         delete_profile |-> {t \in DOMAIN profiles : ProfilesDeleteUsing(uid, profiles[t])},
         insert_inquiry |->
             {row \in UNION {InquiryInserts(id) : id \in InquiryIds} :
                 InquiriesInsertCheck(uid, row)},
         update_inquiry |->
             {<<t, set>> \in (DOMAIN inquiries) \X InquirySets :
                 InquiryUpdateAllowed(uid, inquiries[t], set)},
         delete_inquiry |-> {t \in DOMAIN inquiries : InquiriesDeleteUsing(uid, inquiries[t])},
         insert_follow_up |->
             {row \in UNION {FollowUpInserts(id) : id \in FollowUpIds} :
                 FollowUpsInsertCheck(uid, row)},
         update_follow_up |->
             {<<t, set>> \in (DOMAIN follow_ups) \X FollowUpSets :
                 /\ FollowUpsUpdateUsing(uid, follow_ups[t])
                 /\ FollowUpsUpdateCheck(uid, ApplySet(follow_ups[t], set))},
         delete_follow_up |->
             {t \in DOMAIN follow_ups : FollowUpsDeleteUsing(uid, follow_ups[t])}]]

\* The step changes is_active values of profiles and nothing else in the store.
OnlyIsActiveDiffers ==
    /\ profiles' # profiles
    /\ DOMAIN profiles' = DOMAIN profiles
    /\ \A p \in DOMAIN profiles :
           [profiles'[p] EXCEPT !.is_active = profiles[p].is_active] = profiles[p]
    /\ inquiries' = inquiries
    /\ follow_ups' = follow_ups

\* C26: is_active has no influence on authorization.  Two stores that differ
\* only in is_active values of profiles (the store before and after a
\* deactivation or reactivation) give every caller the same visible rows and
\* the same decision on every insert, update and delete.
C26_IsActiveDoesNotInfluenceDecisions ==
    [][OnlyIsActiveDiffers => Decisions' = Decisions]_vars

\* An employee with an assigned inquiry has just been deactivated and still
\* sees and may still update that inquiry.
C26_Witness ==
    /\ last.op = "update_profile" /\ last.res = "applied"
    /\ \E o \in last.old, n \in last.new :
           /\ o.role = "employee" /\ o.is_active /\ ~n.is_active
           /\ ~profiles[o.id].is_active
           /\ \E i \in VisibleInquiries(o.id) :
                  InquiryUpdateAllowed(o.id, inquiries[i], [status |-> "converted"])

----------------------------------------------------------------------------
\* No profile has the role admin.
NoAdminProfile == WithRole("admin") = {}

\* C27: a store without an admin profile stays so.  From such a state no
\* statement answered by the policies (every request but the identity
\* provider's deleteUser) inserts, updates or deletes a profile, no step leads
\* to a state with an admin profile, and no inquiry is deleted.
C27_NoAdminIsAbsorbing ==
    [][NoAdminProfile =>
          /\ NoAdminProfile'
          /\ last'.op # "delete_user" => profiles' = profiles
          /\ ~(last'.op = "delete_inquiry" /\ last'.res = "applied")
          /\ DOMAIN inquiries \subseteq DOMAIN inquiries']_vars

\* The last admin profile is gone, and a caller that still has a profile has
\* just tried to write to profiles or to delete an inquiry, without effect.
C27_Witness ==
    /\ NoAdminProfile
    /\ last.caller \in DOMAIN profiles
    /\ last.old # {} \/ last.new # {}
    /\ \/ last.op = "insert_profile" /\ last.res = "rejected"
       \/ last.op \in {"update_profile", "delete_profile", "delete_inquiry"}
              /\ last.res = "filtered"

----------------------------------------------------------------------------
\* C24: the store never accepts an INSERT of an inquiry or of a follow-up whose
\* created_by names a profile other than the caller: the created_by of an
\* accepted row is absent or the caller's id.
C24_CreatedByIsTheInsertingCaller ==
    (last.op \in {"insert_inquiry", "insert_follow_up"} /\ last.res = "applied")
        => \A n \in last.new :
               /\ n.created_by \in {NULL, last.caller}
               /\ n.id \in (IF last.op = "insert_inquiry"
                            THEN DOMAIN inquiries ELSE DOMAIN follow_ups)

----------------------------------------------------------------------------
\* The store later in its use: the admin has created a second inquiry, left
\* unassigned or given to the co-leader, and the employee has written a first
\* follow-up on the inquiry assigned to it.  The requests are those of Next.
FollowUpInit ==
    /\ profiles = [id \in Users |-> ProfileRow(id, InitialRole(id), TRUE)]
    /\ \E a \in {NULL, "u2"} :
           inquiries = [id \in InquiryIds |->
                           IF id = 1 THEN InquiryRow(id, "pending", "u3", "u1")
                           ELSE InquiryRow(id, "pending", a, "u1")]
    /\ follow_ups = [id \in {1} |-> FollowUpRow(id, 1, "n1", "u3")]
    /\ auth_users = Users
    /\ ui = NoForm
    /\ last = Request("init", NULL, NULL, {}, {}, "none", {})
    /\ nops = 0

FollowUpSpec == FollowUpInit /\ [][Next]_vars

----------------------------------------------------------------------------
\* The inquiry details modal (InquiryDetailsModal.tsx), opened by a signed-in
\* user on one inquiry of the list.  The store holds two inquiries with their
\* free text and modification time, and the employee's follow-up on the first.

\* What the user may have typed in the "more input" box: nothing, or a text.
MoreInputs == {"", "m1", "m2"}

DetailsInit ==
    /\ profiles = [id \in Users |-> ProfileRow(id, InitialRole(id), TRUE)]
    /\ \E a \in {NULL, "u2"} :
           inquiries = [id \in InquiryIds |->
                           IF id = 1 THEN InquiryRecord(id, "pending", "u3", "u1", NULL, 0)
                           ELSE InquiryRecord(id, "pending", a, "u1", "m1", 0)]
    /\ follow_ups = [id \in {1} |-> FollowUpRow(id, 1, "n1", "u3")]
    /\ auth_users = Users
    /\ ui = NoForm
    /\ last = Request("init", NULL, NULL, {}, {}, "none", {})
    /\ nops = 0

\* Mutant: the modal sends the assignment along, cleared.
handleUpdateInquiry_Mutant(uid, inquiry, updatedStatus, updatedMoreInput) ==
    UpdateInquiry(uid, inquiry.id,
                  [status |-> updatedStatus,
                   more_input |-> IF updatedMoreInput = "" THEN NULL ELSE updatedMoreInput,
                   assigned_to |-> NULL])

\* .update({status: updatedStatus, more_input: updatedMoreInput || null})
\* .eq('id', inquiry.id)
handleUpdateInquiry(uid, inquiry, updatedStatus, updatedMoreInput) ==
    UpdateInquiry(uid, inquiry.id,
                  [status |-> updatedStatus,
                   more_input |-> IF updatedMoreInput = "" THEN NULL ELSE updatedMoreInput])

\* window.confirm, then .delete().eq('id', inquiry.id)
handleDeleteInquiry(uid, inquiry, confirmed) ==
    IF confirmed
    THEN DeleteInquiry(uid, inquiry.id)
    ELSE UNCHANGED <<profiles, inquiries, follow_ups, last>>

DetailsNext ==
    \/ \E uid \in Users, i \in DOMAIN inquiries, st \in Statuses, m \in MoreInputs :
           Statement /\ handleUpdateInquiry(uid, inquiries[i], st, m)
    \/ \E uid \in Users, i \in DOMAIN inquiries, confirmed \in BOOLEAN :
           Statement /\ handleDeleteInquiry(uid, inquiries[i], confirmed)

DetailsSpec == DetailsInit /\ [][DetailsNext]_vars

\* The step is an UPDATE of one inquiry that leaves every column outside cols,
\* every other inquiry, and the other tables as they were.
WritesOnly(cols) ==
    /\ DOMAIN inquiries' = DOMAIN inquiries
    /\ \A i \in DOMAIN inquiries : \A c \in DOMAIN inquiries[i] :
           (i = last'.target /\ c \in cols) \/ inquiries'[i][c] = inquiries[i][c]
    /\ profiles' = profiles
    /\ follow_ups' = follow_ups

\* The modal's update, issued by an employee on an inquiry assigned to it,
\* passes the WITH CHECK of the UPDATE policies and is applied.
AssigneeUpdateApplied ==
    (/\ last'.role = "employee"
     /\ \E o \in last'.old : o.assigned_to = last'.caller)
        => /\ last'.res = "applied"
           /\ \A n \in last'.new : InquiriesUpdateCheck(last'.caller, n)

\* C22 as stated: the modal's update writes status and more_input of its
\* inquiry and leaves all other columns of that inquiry and every other row
\* unchanged, and an employee's update of an inquiry assigned to it satisfies
\* the post-row check.
C22_Original ==
    [][last'.op = "update_inquiry"
          => WritesOnly({"status", "more_input"}) /\ AssigneeUpdateApplied]_vars

\* C22: the modal's update changes, of the one inquiry it names, the columns
\* status and more_input and the updated_at set by the BEFORE UPDATE trigger;
\* assigned_to, created_by and id of that inquiry, every other inquiry and the
\* other tables are unchanged, and an employee's update of an inquiry assigned
\* to it satisfies the post-row check and is applied.
C22_DetailsUpdateWritesStatusAndMoreInput ==
    [][last'.op = "update_inquiry"
          => /\ WritesOnly({"status", "more_input", "updated_at"})
             /\ AssigneeUpdateApplied]_vars

\* An employee has changed status and free text of the inquiry assigned to it:
\* the assignment is as before and the modification time has moved.
C22_Witness ==
    /\ last.op = "update_inquiry" /\ last.role = "employee" /\ last.res = "applied"
    /\ \E o \in last.old, n \in last.new :
           /\ inquiries[last.target] = n
           /\ n.status # o.status /\ n.more_input # o.more_input
           /\ n.assigned_to = last.caller /\ o.assigned_to = last.caller
           /\ n.created_by = o.created_by
           /\ n.updated_at # o.updated_at

----------------------------------------------------------------------------
\* User provisioning (AddUserModal.tsx).  The Employees and Co-Leaders pages
\* open the modal with the role to give; the routes do not look at the role of
\* the signed-in user.  handleSubmit runs in three stretches separated by its
\* awaits: up to the sign-up call, up to the profile insert, and to the end.

\* The roles the pages open the modal with: role="employee" on Employees,
\* role="co_leader" on Co-Leaders.
ProvisionedRoles == {"co_leader", "employee"}

\* The outcomes of supabase.auth.signUp: an error, no error and no user, or the
\* user of a new account.
SignUpOutcomes == {"error", "no_user", "user"}

ProvisionInit ==
    /\ profiles = [id \in {"u1", "u2"} |-> ProfileRow(id, InitialRole(id), TRUE)]
    /\ inquiries = [id \in {1} |-> InquiryRow(id, "pending", "u2", "u1")]
    /\ follow_ups = [id \in {} |-> NULL]
    /\ auth_users = {"u1", "u2"}
    /\ ui = NoForm
    /\ last = Request("init", NULL, NULL, {}, {}, "none", {})
    /\ nops = 0

\* The modal as handleSubmit starts on it: setLoading(true).  operator is the
\* signed-in user, session the account whose token the client sends.
handleSubmit(operator, role) ==
    /\ ui = NoForm
    /\ Tick
    /\ ui' = [form |-> "AddUserModal", pc |-> "signUp", operator |-> operator,
              session |-> operator, role |-> role, loading |-> TRUE,
              user |-> NULL, onSuccess |-> FALSE, alert |-> FALSE]
    /\ UNCHANGED <<profiles, inquiries, follow_ups, auth_users, last>>

\* catch: alert(...); finally: setLoading(false).
Caught(form) == [form EXCEPT !.alert = TRUE, !.loading = FALSE, !.pc = "done"]

\* onSuccess(); finally: setLoading(false).
Succeeded(form) == [form EXCEPT !.onSuccess = TRUE, !.loading = FALSE, !.pc = "done"]

\* await supabase.auth.signUp(...).  With authError the handler throws; with
\* no user it skips the insert and goes on to onSuccess(); with a user the
\* account exists from now on, and the client keeps the operator's session or,
\* when the provider signs a new account in at once, holds the new account's.
signUp(outcome) ==
    /\ ui.form = "AddUserModal" /\ ui.pc = "signUp"
    /\ \/ /\ outcome = "error"
          /\ ui' = Caught(ui)
          /\ UNCHANGED auth_users
       \/ /\ outcome = "no_user"
          /\ ui' = Succeeded(ui)
          /\ UNCHANGED auth_users
       \/ /\ outcome = "user"
          /\ \E id \in Users \ auth_users : \E session \in {ui.operator, id} :
                 /\ auth_users' = auth_users \cup {id}
                 /\ ui' = [ui EXCEPT !.user = id, !.session = session, !.pc = "insert"]
    /\ UNCHANGED <<profiles, inquiries, follow_ups, last, nops>>

\* await supabase.from('profiles').insert({id: authData.user.id, role, ...});
\* if (profileError) throw profileError; onSuccess().
insertProfile ==
    /\ ui.form = "AddUserModal" /\ ui.pc = "insert"
    /\ InsertProfile(ui.session, ProfileRow(ui.user, ui.role, TRUE))
    /\ ui' = IF last'.res = "applied" THEN Succeeded(ui) ELSE Caught(ui)
    /\ UNCHANGED <<auth_users, nops>>

\* The modal is closed (onClose, or the page's onSuccess).
closeAddUserModal ==
    /\ ui.form = "AddUserModal" /\ ui.pc = "done"
    /\ ui' = NoForm
    /\ UNCHANGED <<profiles, inquiries, follow_ups, auth_users, last, nops>>

ProvisionNext ==
    \/ \E operator \in auth_users, role \in ProvisionedRoles : handleSubmit(operator, role)
    \/ \E outcome \in SignUpOutcomes : signUp(outcome)
    \/ insertProfile
    \/ closeAddUserModal
    \/ \E t \in DOMAIN profiles, accepted \in BOOLEAN :
           ui = NoForm /\ Tick /\ DeleteUser(t, accepted)

ProvisionSpec == ProvisionInit /\ [][ProvisionNext]_vars

\* handleSubmit has run to its end.
SubmitFinished == ui.form = "AddUserModal" /\ ui.pc = "done"

\* C28: when handleSubmit has finished, the account it signed up and that
\* account's profile row exist both or neither, also when the sign-up succeeded
\* and the profile insert was rejected; no account is without a profile.
C28_NoAccountWithoutProfile ==
    SubmitFinished =>
        /\ ui.user # NULL => (ui.user \in auth_users <=> ui.user \in DOMAIN profiles)
        /\ \A id \in auth_users : id \in DOMAIN profiles

\* C29: handleSubmit has called onSuccess only if the call inserted a profile
\* row with the requested role; after a sign-up error, a sign-up without a
\* user or a profile insert error, onSuccess was not called.
C29_OnSuccessOnlyAfterProfileInsert ==
    (SubmitFinished /\ ui.onSuccess) =>
        /\ ui.user \in DOMAIN profiles
        /\ profiles[ui.user].role = ui.role
        /\ last.op = "insert_profile" /\ last.res = "applied" /\ last.target = ui.user

----------------------------------------------------------------------------
\* Adding a follow-up in the inquiry details modal (InquiryDetailsModal.tsx).
\* handleAddFollowUp runs in stretches separated by its awaits: up to the
\* upload of the voice file (when one was chosen), up to the insert, and to
\* the end.

FollowUpFormInit ==
    /\ profiles = [id \in Users |-> ProfileRow(id, InitialRole(id), TRUE)]
    /\ \E a \in {NULL, "u2"} :
           inquiries = [id \in InquiryIds |->
                           IF id = 1 THEN InquiryRow(id, "pending", "u3", "u1")
                           ELSE InquiryRow(id, "pending", a, "u1")]
    /\ follow_ups = [id \in {} |-> NULL]
    /\ auth_users = Users
    /\ ui = NoForm
    /\ last = Request("init", NULL, NULL, {}, {}, "none", {})
    /\ nops = 0

\* The modal once it is open on inquiry and loadFollowUps has returned:
\* loading and uploadingVoice are false and the form is empty.  The snapshot
\* may be older than the store: the inquiry may no longer be the user's.
openDetailsModal(uid, inquiry) ==
    /\ ui = NoForm
    /\ ui' = [form |-> "InquiryDetailsModal", pc |-> "form", user |-> uid,
              inquiry |-> inquiry, voice_file |-> FALSE, notes |-> NULL,
              loading |-> FALSE, uploadingVoice |-> FALSE, voiceUrl |-> NULL,
              inserted |-> FALSE, alert |-> FALSE]
    /\ UNCHANGED <<profiles, inquiries, follow_ups, auth_users, last, nops>>

\* The form is submitted with notes and with or without a voice file:
\* setLoading(true); with a file, setUploadingVoice(true) and the upload starts.
handleAddFollowUp(notes, voice_file) ==
    /\ ui.form = "InquiryDetailsModal" /\ ui.pc \in {"form", "done"}
    /\ FollowUpIds \ DOMAIN follow_ups # {}
    /\ Tick
    /\ ui' = [ui EXCEPT !.notes = notes, !.voice_file = voice_file, !.loading = TRUE,
                        !.uploadingVoice = IF voice_file THEN TRUE ELSE @,
                        !.voiceUrl = NULL, !.inserted = FALSE, !.alert = FALSE,
                        !.pc = IF voice_file THEN "upload" ELSE "insert"]
    /\ UNCHANGED <<profiles, inquiries, follow_ups, auth_users, last>>

\* catch: alert(...); finally: setLoading(false).
FollowUpCaught(form) == [form EXCEPT !.alert = TRUE, !.loading = FALSE, !.pc = "done"]

\* await supabase.storage.from('voice-recordings').upload(...).  With
\* uploadError the handler throws; otherwise voiceUrl is the public URL and
\* setUploadingVoice(false).
uploadVoice(ok) ==
    /\ ui.form = "InquiryDetailsModal" /\ ui.pc = "upload"
    /\ ui' = IF ok
             THEN [ui EXCEPT !.voiceUrl = "url", !.uploadingVoice = FALSE, !.pc = "insert"]
             ELSE FollowUpCaught(ui)
    /\ UNCHANGED <<profiles, inquiries, follow_ups, auth_users, last, nops>>

\* await supabase.from('follow_ups').insert({inquiry_id: inquiry.id, notes,
\* voice_recording_url: voiceUrl, created_by: profile?.id}); if (error) throw;
\* the form is reset and closed; finally: setLoading(false).
insertFollowUp ==
    /\ ui.form = "InquiryDetailsModal" /\ ui.pc = "insert"
    /\ InsertFollowUp(ui.user, FollowUpRow(FreshId(follow_ups, FollowUpIds),
                                           ui.inquiry, ui.notes, ui.user))
    /\ ui' = IF last'.res = "applied"
             THEN [ui EXCEPT !.inserted = TRUE, !.loading = FALSE, !.pc = "done"]
             ELSE FollowUpCaught(ui)
    /\ UNCHANGED <<auth_users, nops>>

\* The modal is closed (onClose).
closeDetailsModal ==
    /\ ui.form = "InquiryDetailsModal" /\ ui.pc \in {"form", "done"}
    /\ ui' = NoForm
    /\ UNCHANGED <<profiles, inquiries, follow_ups, auth_users, last, nops>>

FollowUpFormNext ==
    \/ \E uid \in DOMAIN profiles, i \in DOMAIN inquiries : openDetailsModal(uid, i)
    \/ \E n \in Notes, voice_file \in BOOLEAN : handleAddFollowUp(n, voice_file)
    \/ \E ok \in BOOLEAN : uploadVoice(ok)
    \/ insertFollowUp
    \/ closeDetailsModal

FollowUpFormSpec == FollowUpFormInit /\ [][FollowUpFormNext]_vars

\* C30: every run of handleAddFollowUp ends with loading and uploadingVoice
\* both false, whether the upload failed, the insert failed or both succeeded;
\* and the follow-up row was inserted only after the upload of the chosen voice
\* file had succeeded.
C30_AddFollowUpEndsIdle ==
    (ui.form = "InquiryDetailsModal" /\ ui.pc = "done") =>
        /\ ~ui.loading
        /\ ~ui.uploadingVoice
        /\ (ui.inserted /\ ui.voice_file) => ui.voiceUrl # NULL

----------------------------------------------------------------------------
\* The decisions of the store on the requests behind the client's gates, over
\* every store the gates can be read in: each account has no profile or a
\* profile of any role, each stored inquiry is unassigned or assigned to any
\* profile, and one id is left for a new inquiry.  A run is one request of a
\* signed-in user.

DecisionInit ==
    /\ \E P \in SUBSET Users : \E r \in [P -> Roles] :
           /\ profiles = [id \in P |-> ProfileRow(id, r[id], TRUE)]
           /\ \E a \in [InquiryIds \ {MaxInquiries} -> P \cup {NULL}] :
                  inquiries = [id \in InquiryIds \ {MaxInquiries} |->
                                  InquiryRow(id, "pending", a[id], NULL)]
    /\ follow_ups = [id \in {} |-> NULL]
    /\ auth_users = Users
    /\ ui = NoForm
    /\ last = Request("init", NULL, NULL, {}, {}, "none", {})
    /\ nops = 0

\* The request of the run.
FirstRequest == last.op = "init" /\ Statement

\* profile?.id: the caller's id when the client holds a profile, and nothing
\* (the column is left out) when it holds none.
ProfileId(uid) == IF CachedProfile(uid) = {} THEN NULL ELSE uid

\* AddInquiryModal.handleSubmit: insert({..., created_by: profile?.id,
\* status: 'pending'})
AddInquiryModal_handleSubmit(uid) ==
    InsertInquiry(uid, InquiryRow(FreshId(inquiries, InquiryIds), "pending", NULL,
                                  ProfileId(uid)))

\* AssignInquiryModal.handleAssign: update({assigned_to: selectedEmployee})
\* .eq('id', inquiry.id)
handleAssign(uid, inquiry, selectedEmployee) ==
    UpdateInquiry(uid, inquiry.id, [assigned_to |-> selectedEmployee])

DecisionNext ==
    \/ \E uid \in Users : FirstRequest /\ AddInquiryModal_handleSubmit(uid)
    \/ \E uid \in Users, i \in DOMAIN inquiries, e \in DOMAIN profiles :
           FirstRequest /\ handleAssign(uid, inquiries[i], e)
    \/ \E uid \in Users, i \in DOMAIN inquiries, st \in Statuses :
           FirstRequest /\ handleUpdateInquiry(uid, inquiries[i], st, "")
    \/ \E uid \in Users, i \in DOMAIN inquiries :
           FirstRequest /\ handleDeleteInquiry(uid, inquiries[i], TRUE)
    \/ \E uid \in Users, i \in DOMAIN inquiries, n \in Notes :
           FirstRequest /\
           InsertFollowUp(uid, FollowUpRow(FreshId(follow_ups, FollowUpIds), i, n,
                                           ProfileId(uid)))

DecisionSpec == DecisionInit /\ [][DecisionNext]_vars

====
